---- MODULE Spec2Model ----
(***************************************************************************)
(* Model of run_simulation.py, the ChampSim simulation runner: main(),     *)
(* run_simulation() and create_directory().                                *)
(*                                                                         *)
(* Strings are sequences of one-character strings, so that split, strip,   *)
(* replace, Path.stem and the iteration of a str are computed as Python    *)
(* computes them.  The file system is the set of directories and files the *)
(* program touches; external commands (config.sh, make, sha1sum, sha256sum,*)
(* git, champsim) and file operations succeed or fail nondeterministically.*)
(***************************************************************************)
EXTENDS Integers, Sequences, FiniteSets, TLC

\* ---------------------------------------------------------------- bounds
\* most lines of a tracelist file, or --trace options
MaxLines == 2
\* most comma-separated entries of one line
MaxEntries == 2
\* largest num_cores of a configuration
MaxCores == 2
\* seconds the wall clock advances during one invocation
MaxClock == 1

\* ------------------------------------------------------ program constants
default_warmup == 50000000
default_sim == 200000000

\* ------------------------------------------------------------ input sets
\* the trace file names written in a tracelist file or given to --trace
TraceNames == {<<"a">>, <<"a", ".", "b">>}
\* the prefetcher of a configuration sits at the L1D, or at the L2C with none
\* at the L1D
L1DChoices == {"no", "stems"}
L2CChoices == {"stems"}

\* ------------------------------------------------------- string functions
\* str.strip(chars): drop leading and trailing characters that are in chars
RECURSIVE LStrip(_, _)
LStrip(s, cs) ==
  IF s # <<>> /\ Head(s) \in cs THEN LStrip(Tail(s), cs) ELSE s

RECURSIVE RStrip(_, _)
RStrip(s, cs) ==
  IF s # <<>> /\ s[Len(s)] \in cs THEN RStrip(SubSeq(s, 1, Len(s) - 1), cs) ELSE s

Strip(s, cs) == RStrip(LStrip(s, cs), cs)

\* str.split(sep) for a one-character sep: "" gives [""], "a,,b" gives ["a","","b"]
RECURSIVE SplitAcc(_, _, _)
SplitAcc(s, sep, cur) ==
  IF s = <<>> THEN <<cur>>
  ELSE IF Head(s) = sep THEN <<cur>> \o SplitAcc(Tail(s), sep, <<>>)
  ELSE SplitAcc(Tail(s), sep, Append(cur, Head(s)))

Split(s, sep) == SplitAcc(s, sep, <<>>)

IsPrefix(p, s) == Len(p) <= Len(s) /\ SubSeq(s, 1, Len(p)) = p

\* str.replace(old, new), old non-empty, leftmost non-overlapping occurrences
RECURSIVE Replace(_, _, _)
Replace(s, old, new) ==
  IF s = <<>> THEN <<>>
  ELSE IF IsPrefix(old, s)
       THEN new \o Replace(SubSeq(s, Len(old) + 1, Len(s)), old, new)
       ELSE <<Head(s)>> \o Replace(Tail(s), old, new)

\* the characters a Python for-loop over a str yields: one-character strings
StrIter(s) == [k \in 1..Len(s) |-> <<s[k]>>]

\* ------------------------------------------------------------- pathlib
\* pathlib.Path(s) for s without separators, kept as str(path): Path("") is "."
PathOf(s) == IF s = <<>> THEN <<".">> ELSE s

\* Path.name: "." has the empty name
PathName(p) == IF p = <<".">> THEN <<>> ELSE p

\* index of the last "." of a name, 0 when there is none (str.rfind, 1-based)
RECURSIVE RFindDot(_, _)
RFindDot(s, k) ==
  IF k = 0 THEN 0 ELSE IF s[k] = "." THEN k ELSE RFindDot(s, k - 1)

\* Path.stem: the name without its last suffix; a leading or trailing dot is
\* no suffix separator
Stem(p) ==
  LET name == PathName(p)
      k == RFindDot(name, Len(name))
  IN IF 1 < k /\ k < Len(name) THEN SubSeq(name, 1, k - 1) ELSE name

\* Path.resolve(): the absolute path under the working directory
Resolve(p) == <<"/cwd/">> \o p

\* ------------------------------------------------------------- datetime
Digit == <<"0", "1", "2", "3", "4", "5", "6", "7", "8", "9">>
TwoDigits(n) == <<Digit[(n \div 10) + 1], Digit[(n % 10) + 1]>>

\* datetime.isoformat(timespec="seconds") of a UTC time t seconds into the day
IsoFormat(t) ==
  <<"2024-01-01", "T">> \o TwoDigits((t \div 3600) % 24) \o <<":">>
    \o TwoDigits((t \div 60) % 60) \o <<":">> \o TwoDigits(t % 60)
    \o <<"+", "0", "0", ":", "0", "0">>

\* now_str of create_directory
NowStr(t) ==
  Replace(Replace(IsoFormat(t), <<":">>, <<>>), <<"+", "0", "0", "0", "0">>, <<"Z">>)

\* sha1sum output for a trace file: a function of the file
Sha1(p) == <<"sha1">> \o p

\* the text of a line that lists the given entries: ",".join(entries)
RECURSIVE JoinComma(_)
JoinComma(es) ==
  IF Len(es) = 1 THEN es[1] ELSE es[1] \o <<",">> \o JoinComma(Tail(es))

\* the lines a tracelist file can hold and the values --trace can take: the
\* empty string, or up to MaxEntries names separated by commas
Strs ==
  {<<>>} \cup {JoinComma(es) : es \in UNION {[1..n -> TraceNames] : n \in 1..MaxEntries}}

\* ------------------------------------------------------------------ state
VARIABLES
  mode,            \* "trace": --trace given; "tracelist": --tracelist given
  lines,           \* the --trace values, or the lines of the tracelist file
  skip_make,       \* args.skip_make
  pc,              \* position of main / run_simulation
  err,             \* the exception main ended with, "" while there is none
  tracelist,       \* main's tracelist
  tracepaths,      \* main's tracepaths
  uuid_ctr,        \* number of uuid4 draws so far; every draw is a fresh value
  run_id,          \* main's run_id, 0 before it is drawn
  temp_exists,     \* the directory temp_<run_id> exists
  temp_cfg,        \* temp_<run_id>/champsim_config.json exists
  out_state,       \* the output root: "absent", or "created" by this invocation
  files,           \* run directory name -> its files
  now,             \* the wall clock, seconds
  num_cores,       \* main's num_cores, 0 before the configuration is read
  prefetcher,      \* main's prefetcher, "" before the configuration is read
  build_state,     \* "none", "skipped", "configured", "built", "failed"
  i,               \* index of the group the loop of main is at
  results_path,    \* run_simulation's results_path
  cmd,             \* run_simulation's cmd
  trace_checksums, \* run_simulation's trace_checksums
  written,         \* every run_metadata.json written, in order
  procs,           \* every simulator process started, in order
  binary,          \* the simulator executable bin/champsim: "absent" or "present"
  exited           \* the started simulator processes that have terminated

vars == <<mode, lines, skip_make, pc, err, tracelist, tracepaths, uuid_ctr, run_id,
          temp_exists, temp_cfg, out_state, files, now, num_cores, prefetcher,
          build_state, i, results_path, cmd, trace_checksums, written, procs,
          binary, exited>>

envVars == <<binary, exited>>
argVars == <<mode, lines, skip_make>>
fsVars == <<temp_exists, temp_cfg, out_state, files>>
cfgVars == <<num_cores, prefetcher>>
localVars == <<results_path, cmd, trace_checksums>>

\* an empty run directory
EmptyDir == [config |-> FALSE, metadata |-> <<>>, log |-> <<>>]

\* parse_arguments: exactly one of --trace, --tracelist; --trace at least once
Init ==
  /\ mode \in {"trace", "tracelist"}
  /\ lines \in UNION {[1..n -> Strs] : n \in 0..MaxLines}
  /\ mode = "trace" => lines # <<>>
  /\ skip_make \in BOOLEAN
  /\ pc = "parse"
  /\ err = ""
  /\ tracelist = <<>>
  /\ tracepaths = <<>>
  /\ uuid_ctr = 0
  /\ run_id = 0
  /\ temp_exists = FALSE
  /\ temp_cfg = FALSE
  /\ out_state = "absent"
  /\ files = <<>>
  /\ now = 0
  /\ num_cores = 0
  /\ prefetcher = ""
  /\ build_state = "none"
  /\ i = 0
  /\ results_path = <<>>
  /\ cmd = <<>>
  /\ trace_checksums = <<>>
  /\ written = <<>>
  /\ procs = <<>>
  /\ binary \in {"absent", "present"}
  /\ exited = {}

\* an uncaught exception ends main
Raise(e) == pc' = "aborted" /\ err' = e

\* ------------------------------------------------------- main: the traces
\* ParseLines without the split: every line is one entry
ParseLinesUnsplit(ls) == [k \in 1..Len(ls) |-> <<Strip(ls[k], {",", " ", "\n"})>>]

\* the tracelist comprehension over the lines of the file
ParseLines(ls) == [k \in 1..Len(ls) |-> Split(Strip(ls[k], {",", " ", "\n"}), ",")]

\* the tracepaths comprehension: iterates each element of tracelist, which is
\* a list of str under --tracelist and a str under --trace
ToTracepaths(tl, m) ==
  [k \in 1..Len(tl) |->
     LET traces == IF m = "trace" THEN StrIter(tl[k]) ELSE tl[k]
     IN [j \in 1..Len(traces) |-> PathOf(traces[j])]]

\* SameLengths with the loop over the first line only
SameLengthsFirstOnly(tl) ==
  \A k \in 1..Len(tl) : k = 1 => Len(tl[k]) = Len(tl[1])

SameLengths(tl) == \A k \in 1..Len(tl) : Len(tl[k]) = Len(tl[1])

ParseTracelist ==
  /\ pc = "parse" /\ mode = "tracelist"
  /\ SameLengths(ParseLines(lines))
  /\ tracelist' = ParseLines(lines)
  /\ tracepaths' = ToTracepaths(tracelist', mode)
  /\ pc' = "mktemp"
  /\ UNCHANGED <<envVars, argVars, err, uuid_ctr, run_id, fsVars, now, cfgVars, build_state,
                 i, localVars, written, procs>>

ParseTracelistError ==
  /\ pc = "parse" /\ mode = "tracelist"
  /\ ~SameLengths(ParseLines(lines))
  /\ tracelist' = ParseLines(lines)
  /\ Raise("ValueError: tracelist lines")
  /\ UNCHANGED <<envVars, argVars, tracepaths, uuid_ctr, run_id, fsVars, now, cfgVars,
                 build_state, i, localVars, written, procs>>

ParseTraceArgs ==
  /\ pc = "parse" /\ mode = "trace"
  /\ tracelist' = lines
  /\ tracepaths' = ToTracepaths(tracelist', mode)
  /\ pc' = "mktemp"
  /\ UNCHANGED <<envVars, argVars, err, uuid_ctr, run_id, fsVars, now, cfgVars, build_state,
                 i, localVars, written, procs>>

\* ------------------------------------------- main: run id and scratch copy
\* temp_<run_id> cannot exist already, run_id being a fresh uuid
MakeTemp ==
  /\ pc = "mktemp"
  /\ uuid_ctr' = uuid_ctr + 1
  /\ run_id' = uuid_ctr'
  /\ temp_exists' = TRUE
  /\ pc' = "copycfg"
  /\ UNCHANGED <<envVars, argVars, err, tracelist, tracepaths, temp_cfg, out_state, files, now,
                 cfgVars, build_state, i, localVars, written, procs>>

CopyConfig ==
  /\ pc = "copycfg"
  /\ temp_cfg' = TRUE
  /\ pc' = "readcfg"
  /\ UNCHANGED <<envVars, argVars, err, tracelist, tracepaths, uuid_ctr, run_id, temp_exists,
                 out_state, files, now, cfgVars, build_state, i, localVars, written,
                 procs>>

CopyConfigError ==
  /\ pc = "copycfg"
  /\ Raise("OSError: copy configuration")
  /\ UNCHANGED <<envVars, argVars, tracelist, tracepaths, uuid_ctr, run_id, fsVars, now,
                 cfgVars, build_state, i, localVars, written, procs>>

ReadConfig ==
  /\ pc = "readcfg"
  /\ \E l1d \in L1DChoices, l2c \in L2CChoices, n \in 1..MaxCores :
       /\ prefetcher' = IF l1d # "no" THEN l1d ELSE l2c
       /\ num_cores' = n
  /\ pc' = "validate"
  /\ UNCHANGED <<envVars, argVars, err, tracelist, tracepaths, uuid_ctr, run_id, fsVars, now,
                 build_state, i, localVars, written, procs>>

ReadConfigError ==
  /\ pc = "readcfg"
  /\ Raise("KeyError: configuration")
  /\ UNCHANGED <<envVars, argVars, tracelist, tracepaths, uuid_ctr, run_id, fsVars, now,
                 cfgVars, build_state, i, localVars, written, procs>>

\* ------------------------------------------- main: validation and expansion
ValidateOk ==
  /\ pc = "validate"
  /\ tracepaths # <<>>
  /\ Len(tracepaths[1]) = 1 \/ Len(tracepaths[1]) = num_cores
  /\ pc' = "expand"
  /\ UNCHANGED <<envVars, argVars, err, tracelist, tracepaths, uuid_ctr, run_id, fsVars, now,
                 cfgVars, build_state, i, localVars, written, procs>>

ValidateShapeError ==
  /\ pc = "validate"
  /\ tracepaths # <<>>
  /\ Len(tracepaths[1]) # 1 /\ Len(tracepaths[1]) # num_cores
  /\ Raise("ValueError: number of traces")
  /\ UNCHANGED <<envVars, argVars, tracelist, tracepaths, uuid_ctr, run_id, fsVars, now,
                 cfgVars, build_state, i, localVars, written, procs>>

\* an empty tracelist file: tracepaths[0] does not exist
ValidateIndexError ==
  /\ pc = "validate"
  /\ tracepaths = <<>>
  /\ Raise("IndexError: tracepaths[0]")
  /\ UNCHANGED <<envVars, argVars, tracelist, tracepaths, uuid_ctr, run_id, fsVars, now,
                 cfgVars, build_state, i, localVars, written, procs>>

\* AppendFirst with the loop run once too often
RECURSIVE AppendFirstOnceMore(_, _)
AppendFirstOnceMore(group, n) ==
  IF n < 0 THEN group ELSE AppendFirstOnceMore(Append(group, group[1]), n - 1)

\* group.append(group[0]) n times
RECURSIVE AppendFirst(_, _)
AppendFirst(group, n) ==
  IF n = 0 THEN group ELSE AppendFirst(Append(group, group[1]), n - 1)

NeedsExpansion == Len(tracepaths[1]) = 1 /\ num_cores > 1

Expand ==
  /\ pc = "expand"
  /\ IF NeedsExpansion
     THEN /\ \A k \in 1..Len(tracepaths) : tracepaths[k] # <<>>
          /\ tracepaths' = [k \in 1..Len(tracepaths) |->
                              AppendFirst(tracepaths[k], num_cores - 1)]
     ELSE UNCHANGED tracepaths
  /\ pc' = "build"
  /\ UNCHANGED <<envVars, argVars, err, tracelist, uuid_ctr, run_id, fsVars, now, cfgVars,
                 build_state, i, localVars, written, procs>>

\* a group with no entry has no tracepaths[i][0] to append; the groups before
\* it are expanded already
ExpandIndexError ==
  /\ pc = "expand"
  /\ NeedsExpansion
  /\ \E e \in 1..Len(tracepaths) :
       /\ tracepaths[e] = <<>>
       /\ \A k \in 1..(e - 1) : tracepaths[k] # <<>>
       /\ tracepaths' = [k \in 1..Len(tracepaths) |->
                           IF k < e THEN AppendFirst(tracepaths[k], num_cores - 1)
                           ELSE tracepaths[k]]
  /\ Raise("IndexError: tracepaths[i][0]")
  /\ UNCHANGED <<envVars, argVars, tracelist, uuid_ctr, run_id, fsVars, now, cfgVars,
                 build_state, i, localVars, written, procs>>

\* ------------------------------------------------------------ main: build
SkipMake ==
  /\ pc = "build" /\ skip_make
  /\ build_state' = "skipped"
  /\ pc' = "loop"
  /\ UNCHANGED <<envVars, argVars, err, tracelist, tracepaths, uuid_ctr, run_id, fsVars, now,
                 cfgVars, i, localVars, written, procs>>

\* ConfigureOk without the test of args.skip_make
ConfigureOkAlways ==
  /\ pc = "build"
  /\ build_state' = "configured"
  /\ pc' = "make"
  /\ UNCHANGED <<envVars, argVars, err, tracelist, tracepaths, uuid_ctr, run_id, fsVars, now,
                 cfgVars, i, localVars, written, procs>>

\* subprocess.run(["./config.sh", ...], check=True) returns
ConfigureOk ==
  /\ pc = "build" /\ ~skip_make
  /\ build_state' = "configured"
  /\ pc' = "make"
  /\ UNCHANGED <<envVars, argVars, err, tracelist, tracepaths, uuid_ctr, run_id, fsVars, now,
                 cfgVars, i, localVars, written, procs>>

\* ./config.sh exits non-zero: check=True raises CalledProcessError
ConfigureError ==
  /\ pc = "build" /\ ~skip_make
  /\ build_state' = "failed"
  /\ Raise("CalledProcessError: config.sh")
  /\ UNCHANGED <<envVars, argVars, tracelist, tracepaths, uuid_ctr, run_id, fsVars, now,
                 cfgVars, i, localVars, written, procs>>

\* subprocess.run(["make", ...], check=True) returns: bin/champsim is built
MakeOk ==
  /\ pc = "make"
  /\ build_state' = "built"
  /\ binary' = "present"
  /\ pc' = "loop"
  /\ UNCHANGED <<exited, argVars, err, tracelist, tracepaths, uuid_ctr, run_id, fsVars, now,
                 cfgVars, i, localVars, written, procs>>

\* MakeError without check=True: the exit status of make is ignored
MakeErrorUnchecked ==
  /\ pc = "make"
  /\ build_state' = "failed"
  /\ pc' = "loop"
  /\ UNCHANGED <<envVars, argVars, err, tracelist, tracepaths, uuid_ctr, run_id, fsVars, now,
                 cfgVars, i, localVars, written, procs>>

\* make exits non-zero: check=True raises CalledProcessError
MakeError ==
  /\ pc = "make"
  /\ build_state' = "failed"
  /\ Raise("CalledProcessError: make")
  /\ UNCHANGED <<envVars, argVars, tracelist, tracepaths, uuid_ctr, run_id, fsVars, now,
                 cfgVars, i, localVars, written, procs>>

\* ------------------------------------------------- main: the loop of runs
\* the for statement takes the next group and calls run_simulation
NextGroup ==
  /\ pc = "loop"
  /\ i < Len(tracepaths)
  /\ i' = i + 1
  /\ pc' = "rs_create"
  /\ UNCHANGED <<envVars, argVars, err, tracelist, tracepaths, uuid_ctr, run_id, fsVars, now,
                 cfgVars, build_state, localVars, written, procs>>

\* Cleanup with the loop ended one group early
CleanupOneEarly ==
  /\ pc = "loop"
  /\ i >= Len(tracepaths) - 1
  /\ temp_exists' = FALSE
  /\ temp_cfg' = FALSE
  /\ pc' = "done"
  /\ UNCHANGED <<envVars, argVars, err, tracelist, tracepaths, uuid_ctr, run_id, out_state,
                 files, now, cfgVars, build_state, i, localVars, written, procs>>

\* Cleanup after a wait for every started simulator process
CleanupAfterWait ==
  /\ pc = "loop"
  /\ i = Len(tracepaths)
  /\ \A n \in 1..Len(procs) : n \in exited
  /\ temp_exists' = FALSE
  /\ temp_cfg' = FALSE
  /\ pc' = "done"
  /\ UNCHANGED <<envVars, argVars, err, tracelist, tracepaths, uuid_ctr, run_id, out_state,
                 files, now, cfgVars, build_state, i, localVars, written, procs>>

\* the for statement is exhausted: rmtree(temp_path), and main returns
Cleanup ==
  /\ pc = "loop"
  /\ i = Len(tracepaths)
  /\ temp_exists' = FALSE
  /\ temp_cfg' = FALSE
  /\ pc' = "done"
  /\ UNCHANGED <<envVars, argVars, err, tracelist, tracepaths, uuid_ctr, run_id, out_state,
                 files, now, cfgVars, build_state, i, localVars, written, procs>>

\* the wall clock advances before create_directory reads it
Tick ==
  /\ pc = "rs_create"
  /\ now < MaxClock
  /\ now' = now + 1
  /\ UNCHANGED <<envVars, argVars, pc, err, tracelist, tracepaths, uuid_ctr, run_id, fsVars,
                 cfgVars, build_state, i, localVars, written, procs>>

\* ------------------------------------------------------- create_directory
\* ResultsDir with the prefetcher before the trace name
ResultsDirVariantFirst(t, trace_path, pf) ==
  NowStr(t) \o <<"_", pf, "_">> \o Stem(trace_path)

\* results_dir: now_str + "_" + trace_name + "_" + prefetcher
ResultsDir(t, trace_path, pf) == NowStr(t) \o <<"_">> \o Stem(trace_path) \o <<"_", pf>>

\* run_simulation calls create_directory with trace_path[0]; the directory is
\* made unless it exists, and its path is returned either way
CreateDirectory ==
  /\ pc = "rs_create"
  /\ tracepaths[i] # <<>>
  /\ out_state' = IF out_state = "absent" THEN "created" ELSE out_state
  /\ results_path' = ResultsDir(now, tracepaths[i][1], prefetcher)
  /\ files' = IF results_path' \in DOMAIN files THEN files
              ELSE [d \in DOMAIN files \cup {results_path'} |->
                      IF d \in DOMAIN files THEN files[d] ELSE EmptyDir]
  /\ pc' = "rs_copy"
  /\ UNCHANGED <<envVars, argVars, err, tracelist, tracepaths, uuid_ctr, run_id, temp_exists,
                 temp_cfg, now, cfgVars, build_state, i, cmd, trace_checksums, written,
                 procs>>

\* output_dir.mkdir() or results_path.mkdir() raises
CreateDirectoryError ==
  /\ pc = "rs_create"
  /\ tracepaths[i] # <<>>
  /\ Raise("OSError: mkdir")
  /\ UNCHANGED <<envVars, argVars, tracelist, tracepaths, uuid_ctr, run_id, fsVars, now,
                 cfgVars, build_state, i, localVars, written, procs>>

\* the group has no entry: trace_path[0] raises
LeadTraceIndexError ==
  /\ pc = "rs_create"
  /\ tracepaths[i] = <<>>
  /\ Raise("IndexError: trace_path[0]")
  /\ UNCHANGED <<envVars, argVars, tracelist, tracepaths, uuid_ctr, run_id, fsVars, now,
                 cfgVars, build_state, i, localVars, written, procs>>

\* --------------------------------------------------------- run_simulation
\* copyfile(config_path, results_path / "champsim_config.json")
CopyRunConfig ==
  /\ pc = "rs_copy"
  /\ files' = [files EXCEPT ![results_path].config = TRUE]
  /\ pc' = "rs_sums"
  /\ UNCHANGED <<envVars, argVars, err, tracelist, tracepaths, uuid_ctr, run_id, temp_exists,
                 temp_cfg, out_state, now, cfgVars, build_state, i, localVars, written,
                 procs>>

CopyRunConfigError ==
  /\ pc = "rs_copy"
  /\ Raise("OSError: copy run configuration")
  /\ UNCHANGED <<envVars, argVars, tracelist, tracepaths, uuid_ctr, run_id, fsVars, now,
                 cfgVars, build_state, i, localVars, written, procs>>

\* cmd: the executable, the instruction counts, the result file, then every
\* trace of the group, resolved
Command(rp, trace_path) ==
  << <<"/cwd/", "bin/champsim">>,
     <<"--warmup-instructions">>, <<default_warmup>>,
     <<"--simulation-instructions">>, <<default_sim>>,
     <<"--json">>, <<"/cwd/", "out/">> \o rp \o <<"/simulation_results.json">> >>
   \o [k \in 1..Len(trace_path) |-> Resolve(trace_path[k])]

\* trace_checksums: one sha1sum per trace of the group
TraceChecksums(trace_path) == [k \in 1..Len(trace_path) |-> Sha1(trace_path[k])]

\* the command is built, and sha1sum of every trace, sha256sum of the
\* configuration and git rev-parse all return
Checksums ==
  /\ pc = "rs_sums"
  /\ cmd' = Command(results_path, tracepaths[i])
  /\ trace_checksums' = TraceChecksums(tracepaths[i])
  /\ pc' = "rs_meta"
  /\ UNCHANGED <<envVars, argVars, err, tracelist, tracepaths, uuid_ctr, run_id, fsVars, now,
                 cfgVars, build_state, i, results_path, written, procs>>

\* sha1sum, sha256sum or git exits non-zero: check=True raises
ChecksumsError ==
  /\ pc = "rs_sums"
  /\ cmd' = Command(results_path, tracepaths[i])
  /\ Raise("CalledProcessError: checksum")
  /\ UNCHANGED <<envVars, argVars, tracelist, tracepaths, uuid_ctr, run_id, fsVars, now,
                 cfgVars, build_state, i, results_path, trace_checksums, written,
                 procs>>

\* Metadata with the run id written as the simulation id
MetadataSimIsRun(trace_path, sums, pf, rid, sid, t, c) ==
  [trace_path |-> trace_path, trace_checksum |-> sums, git_commit |-> "HEAD",
   prefetcher |-> pf, run_id |-> rid, sim_id |-> rid, run_datetime |-> IsoFormat(t),
   command |-> c]

\* the dictionary json.dump writes to run_metadata.json
Metadata(trace_path, sums, pf, rid, sid, t, c) ==
  [trace_path |-> trace_path, trace_checksum |-> sums, git_commit |-> "HEAD",
   prefetcher |-> pf, run_id |-> rid, sim_id |-> sid, run_datetime |-> IsoFormat(t),
   command |-> c]

\* run_metadata.json is opened for writing, which replaces an earlier one, and
\* the record is dumped; sim_id is a fresh uuid
WriteMetadata ==
  /\ pc = "rs_meta"
  /\ uuid_ctr' = uuid_ctr + 1
  /\ LET rec == Metadata(tracepaths[i], trace_checksums, prefetcher, run_id,
                         uuid_ctr', now, cmd)
     IN /\ files' = [files EXCEPT ![results_path].metadata = <<rec>>]
        /\ written' = Append(written, [group |-> i, dir |-> results_path, rec |-> rec])
  /\ pc' = "rs_popen"
  /\ UNCHANGED <<envVars, argVars, err, tracelist, tracepaths, run_id, temp_exists, temp_cfg,
                 out_state, now, cfgVars, build_state, i, localVars, procs>>

\* WriteMetadataError with the exception swallowed: the run goes on
WriteMetadataErrorSwallowed ==
  /\ pc = "rs_meta"
  /\ pc' = "rs_popen"
  /\ UNCHANGED <<envVars, argVars, err, tracelist, tracepaths, uuid_ctr, run_id, fsVars, now,
                 cfgVars, build_state, i, localVars, written, procs>>

\* open(results_path / "run_metadata.json", "w") raises
WriteMetadataError ==
  /\ pc = "rs_meta"
  /\ Raise("OSError: run_metadata.json")
  /\ UNCHANGED <<envVars, argVars, tracelist, tracepaths, uuid_ctr, run_id, fsVars, now,
                 cfgVars, build_state, i, localVars, written, procs>>

\* sim_output.log is opened "wb", which replaces an earlier one, and Popen
\* starts the simulator; run_simulation returns without waiting for it
Launch ==
  /\ pc = "rs_popen"
  /\ binary = "present"
  /\ files' = [files EXCEPT ![results_path].log = <<i>>]
  /\ procs' = Append(procs, [group |-> i, dir |-> results_path, cmd |-> cmd])
  /\ results_path' = <<>>
  /\ cmd' = <<>>
  /\ trace_checksums' = <<>>
  /\ pc' = "loop"
  /\ UNCHANGED <<envVars, argVars, err, tracelist, tracepaths, uuid_ctr, run_id, temp_exists,
                 temp_cfg, out_state, now, cfgVars, build_state, i, written>>

\* Popen raises (bin/champsim missing or not executable); the log is open
LaunchError ==
  /\ pc = "rs_popen"
  /\ files' = [files EXCEPT ![results_path].log = <<i>>]
  /\ Raise("OSError: Popen")
  /\ UNCHANGED <<envVars, argVars, tracelist, tracepaths, uuid_ctr, run_id, temp_exists,
                 temp_cfg, out_state, now, cfgVars, build_state, i, localVars, written,
                 procs>>

\* ---------------------------------------------------------- specification
Next ==
  \/ ParseTracelist \/ ParseTracelistError \/ ParseTraceArgs
  \/ MakeTemp \/ CopyConfig \/ CopyConfigError \/ ReadConfig \/ ReadConfigError
  \/ ValidateOk \/ ValidateShapeError \/ ValidateIndexError
  \/ Expand \/ ExpandIndexError
  \/ SkipMake \/ ConfigureOk \/ ConfigureError \/ MakeOk \/ MakeError
  \/ NextGroup \/ Cleanup \/ Tick
  \/ CreateDirectoryError \/ LeadTraceIndexError \/ CreateDirectory
  \/ CopyRunConfig \/ CopyRunConfigError
  \/ Checksums \/ ChecksumsError
  \/ WriteMetadata \/ WriteMetadataError
  \/ Launch \/ LaunchError

Spec == Init /\ [][Next]_vars

\* a started simulator process terminates, at any time, also after main ended;
\* main holds no reference to the Popen object and reads nothing of it
SimulatorExit ==
  /\ \E n \in 1..Len(procs) : n \notin exited /\ exited' = exited \cup {n}
  /\ UNCHANGED <<binary, argVars, pc, err, tracelist, tracepaths, uuid_ctr, run_id,
                 fsVars, now, cfgVars, build_state, i, localVars, written, procs>>

LiveNext == Next \/ SimulatorExit

\* the orchestrator keeps running while it has a step to take; nothing is
\* assumed of the simulator processes, which may run forever
LiveSpec == Init /\ [][LiveNext]_vars /\ WF_vars(Next)

\* ------------------------------------------------------------ properties
Ended == pc \in {"done", "aborted"}

\* the batch as parsed, before expansion: tracelist is never assigned again
Batch == ToTracepaths(tracelist, mode)

\* the expansion step of main is complete
AfterExpand ==
  \/ pc \in {"build", "make", "loop", "rs_create", "rs_copy", "rs_sums", "rs_meta",
             "rs_popen", "done"}
  \/ pc = "aborted" /\ build_state # "none"

\* the trace arguments of a command: what follows its seven fixed words
CmdTraces(c) == SubSeq(c, 8, Len(c))

ShapeErrors == {"ValueError: tracelist lines", "ValueError: number of traces"}

\* C1: if some group of the batch has a length that is neither 1 nor
\* num_cores, main aborts with a shape error and launches no simulator process.
C1_ShapeErrorAborts ==
  (num_cores # 0 /\ \E k \in 1..Len(Batch) : Len(Batch[k]) \notin {1, num_cores})
    => /\ procs = <<>>
       /\ pc # "done"
       /\ pc = "aborted" => err \in ShapeErrors

\* C2: when main ends with the shape error of the validation, the engine has
\* created no directory: no scratch directory, no output root, no run directory.
C2_NoDirectoryAtShapeError ==
  (pc = "aborted" /\ err = "ValueError: number of traces")
    => (~temp_exists /\ out_state = "absent" /\ DOMAIN files = {})

AllSingle == Batch # <<>> /\ \A k \in 1..Len(Batch) : Len(Batch[k]) = 1

\* C3: when every group of the batch has one entry and num_cores > 1, after the
\* expansion every group holds num_cores entries, each the group's original
\* path; every command lists that path num_cores times and every provenance
\* record holds num_cores checksums.
C3_Broadcast ==
  (AfterExpand /\ AllSingle /\ num_cores > 1)
    => /\ Len(tracepaths) = Len(Batch)
       /\ \A k \in 1..Len(tracepaths) :
            /\ Len(tracepaths[k]) = num_cores
            /\ \A j \in 1..num_cores : tracepaths[k][j] = Batch[k][1]
       /\ \A n \in 1..Len(procs) :
            CmdTraces(procs[n].cmd)
              = [j \in 1..num_cores |-> Resolve(Batch[procs[n].group][1])]
       /\ \A m \in 1..Len(written) :
            Len(written[m].rec.trace_checksum) = num_cores

\* every group had one entry, was expanded, recorded and launched
C3_Witness ==
  /\ pc = "done" /\ AllSingle /\ num_cores > 1
  /\ Len(procs) = Len(Batch) /\ Len(written) = Len(Batch)
  /\ \E k \in 1..Len(Batch) : Batch[k] # Batch[1]

\* C4: a simulator process is launched only after both build commands
\* succeeded or the build was skipped; if a build command fails, main aborts
\* with the build error and launches no simulator process.
C4_BuildGate ==
  /\ procs # <<>> => build_state \in {"skipped", "built"}
  /\ build_state = "failed"
       => /\ pc = "aborted"
          /\ err \in {"CalledProcessError: config.sh", "CalledProcessError: make"}
          /\ procs = <<>>

\* make failed after config.sh succeeded
C4_Witness ==
  build_state = "failed" /\ err = "CalledProcessError: make" /\ Len(tracepaths) > 1

\* C5: create_directory never returns a results path that existed when it was
\* called.
C5_NeverReuses ==
  [][(pc = "rs_create" /\ pc' = "rs_copy") => results_path' \notin DOMAIN files]_vars

\* C6: two simulator processes launched for different groups have different
\* output directories.
C6_DistinctDirectories ==
  \A m, n \in 1..Len(procs) :
    procs[m].group # procs[n].group => procs[m].dir # procs[n].dir

LocalErrors ==
  {"OSError: mkdir", "CalledProcessError: checksum", "OSError: run_metadata.json",
   "OSError: Popen"}

\* C7: when the run of one group fails locally, the loop still reaches every
\* later group: main does not end on a local failure before the last group.
C7_SiblingsStillRun ==
  (pc = "aborted" /\ err \in LocalErrors) => i = Len(tracepaths)

\* C8: a simulator process of a group exists only when the group's run
\* directory exists and its provenance record, with the checksum of every trace
\* of the group, has been written there; a group whose checksum step or
\* provenance write failed has no process.
C8_ProvenanceBeforeLaunch ==
  /\ \A n \in 1..Len(procs) :
       /\ procs[n].dir \in DOMAIN files
       /\ files[procs[n].dir].metadata # <<>>
       /\ \E m \in 1..Len(written) :
            /\ written[m].group = procs[n].group
            /\ written[m].dir = procs[n].dir
            /\ written[m].rec.trace_checksum = TraceChecksums(tracepaths[procs[n].group])
  /\ (pc = "aborted" /\ err \in {"CalledProcessError: checksum",
                                  "OSError: run_metadata.json"})
       => \A n \in 1..Len(procs) : procs[n].group # i

\* the provenance write of the second group failed after the first was launched
C8_Witness ==
  pc = "aborted" /\ err = "OSError: run_metadata.json" /\ Len(procs) = 1 /\ i = 2

\* C9: every provenance record written carries main's run_id, and records of
\* different groups carry different sim_id values.
C9_RunAndSimIds ==
  /\ \A m \in 1..Len(written) : written[m].rec.run_id = run_id
  /\ \A m, n \in 1..Len(written) :
       written[m].group # written[n].group
         => written[m].rec.sim_id # written[n].rec.sim_id

\* two groups have their provenance records
C9_Witness ==
  Len(written) >= 2 /\ written[1].group # written[2].group

\* C10: when main has ended after creating the scratch directory, the scratch
\* directory no longer exists.
C10_TempRemovedAtEnd ==
  (Ended /\ run_id # 0) => ~temp_exists

\* some line of the tracelist file has another number of entries than some
\* other line
UnequalLines ==
  /\ mode = "tracelist"
  /\ LET entries == ParseLines(lines)
     IN \E j, k \in 1..Len(entries) : Len(entries[j]) # Len(entries[k])

\* C11: a tracelist file with lines of different numbers of entries is
\* rejected with the shape error before the scratch directory is created,
\* before the build, and before any run directory or process exists.
C11_UnequalLinesRejected ==
  (UnequalLines /\ pc # "parse")
    => /\ pc = "aborted" /\ err = "ValueError: tracelist lines"
       /\ run_id = 0 /\ ~temp_exists /\ ~temp_cfg
       /\ build_state = "none"
       /\ out_state = "absent" /\ DOMAIN files = {}
       /\ written = <<>> /\ procs = <<>>

\* a file of two lines, one with two entries and one with one, was rejected
C11_Witness ==
  UnequalLines /\ pc = "aborted" /\ Len(lines) = 2

\* the tracelist file of scenario B: a line of two traces, then a line of one
ScenarioB ==
  /\ mode = "tracelist"
  /\ \E t1, t2, t3 \in TraceNames :
       t1 # t2 /\ lines = <<JoinComma(<<t1, t2>>), t3>>

\* C12 as stated: the file of scenario B, run with core count 1, is not
\* rejected and yields two groups of length 1, two run directories, two
\* provenance records and two simulator launches.
C12_ScenarioBTwoRuns ==
  ScenarioB
    => /\ err \notin ShapeErrors
       /\ (pc = "done" /\ num_cores = 1)
            => /\ Len(Batch) = 2 /\ Len(Batch[1]) = 1 /\ Len(Batch[2]) = 1
               /\ Len(written) = 2 /\ Len(procs) = 2
               /\ Cardinality(DOMAIN files) = 2

\* C12 amended: the file of scenario B is rejected with the shape error of the
\* tracelist, whatever the core count: no group is run, no run directory, no
\* provenance record and no simulator process results.
C12_ScenarioBRejected ==
  (ScenarioB /\ pc # "parse")
    => /\ pc = "aborted" /\ err = "ValueError: tracelist lines"
       /\ tracepaths = <<>> /\ num_cores = 0
       /\ DOMAIN files = {} /\ written = <<>> /\ procs = <<>>

\* the file of scenario B was parsed into a group of two and a group of one
C12_Witness ==
  /\ ScenarioB /\ Ended
  /\ Len(tracelist) = 2 /\ Len(tracelist[1]) = 2 /\ Len(tracelist[2]) = 1

\* C13: the processes are launched in the order of the groups, at most one per
\* group, each with the traces of its group; when main returns, every group
\* of the batch has its process.
C13_OneProcessPerGroup ==
  /\ \A n \in 1..Len(procs) :
       /\ procs[n].group = n
       /\ CmdTraces(procs[n].cmd) = [j \in 1..Len(tracepaths[n]) |-> Resolve(tracepaths[n][j])]
  /\ Len(procs) <= i
  /\ pc = "done" => Len(procs) = Len(Batch)

\* the build succeeded and both groups were launched
C13_Witness ==
  pc = "done" /\ build_state = "built" /\ Len(procs) = 2 /\ Len(Batch) = 2

\* C14: main ends, whether or not any started simulator process ever
\* terminates: it waits for none of them.
C14_MainTerminates == <>Ended

\* main has returned after both launches while both simulators still run
C14_Witness ==
  pc = "done" /\ Len(procs) = 2 /\ exited = {}

\* main is in, or ended in, the loop of runs
InRuns ==
  \/ pc \in {"loop", "rs_create", "rs_copy", "rs_sums", "rs_meta", "rs_popen", "done"}
  \/ pc = "aborted" /\ i > 0

\* C15 as stated, a rebuild being forced when --skip-make is not given: once
\* main has decided, the build was invoked exactly if it was forced or
\* bin/champsim was absent.  (Until make returns, binary is as it was at the
\* start.)
C15_BuildExactlyWhenNeeded ==
  build_state \in {"skipped", "configured"}
    => ((build_state = "configured") <=> (~skip_make \/ binary = "absent"))

\* C15 amended: the build is invoked exactly when --skip-make is not given,
\* whether or not bin/champsim exists; config.sh and make run once each, in
\* this order, and both have succeeded before the loop of runs starts.  With
\* --skip-make and no binary, nothing is built and no process can be started.
C15_BuildUnlessSkipped ==
  /\ build_state = "skipped" => skip_make
  /\ build_state \in {"configured", "built", "failed"} => ~skip_make
  /\ pc = "build" => build_state = "none"
  /\ pc = "make" => build_state = "configured"
  /\ InRuns => build_state = IF skip_make THEN "skipped" ELSE "built"
  /\ procs # <<>> => binary = "present"

\* --skip-make was given while bin/champsim was absent: nothing was built and
\* the first launch failed
C15_Witness ==
  /\ skip_make /\ binary = "absent" /\ build_state = "skipped"
  /\ pc = "aborted" /\ err = "OSError: Popen" /\ procs = <<>>

\* the run directories handed out so far, each with the group it was made for
NamedRuns ==
  {<<written[m].dir, written[m].group>> : m \in 1..Len(written)}
    \cup {<<procs[n].dir, procs[n].group>> : n \in 1..Len(procs)}
    \cup (IF results_path # <<>> THEN {<<results_path, i>>} ELSE {})

\* a UTC timestamp of second precision without colons, the zero offset
\* written as Z: the date, T, six digits, Z
IsTimestamp(ts) ==
  /\ Len(ts) = 9
  /\ ts[2] = "T" /\ ts[9] = "Z"
  /\ \A k \in 3..8 : \E d \in 1..10 : ts[k] = Digit[d]

\* the fields of a directory name, which underscores separate
NameFields(dir) == Split(dir, "_")

\* C16 as stated: the name of a run directory is the timestamp, then the
\* prefetcher name, then the stem of the group's lead trace.
C16_TimestampVariantTrace ==
  \A r \in NamedRuns :
    LET fields == NameFields(r[1])
    IN /\ Len(fields) = 3
       /\ IsTimestamp(fields[1])
       /\ fields[2] = <<prefetcher>>
       /\ fields[3] = Stem(tracepaths[r[2]][1])

\* C16 amended: the name of a run directory is the timestamp, then the stem
\* of the group's lead trace, then the prefetcher name.
C16_TimestampTraceVariant ==
  \A r \in NamedRuns :
    LET fields == NameFields(r[1])
    IN /\ Len(fields) = 3
       /\ IsTimestamp(fields[1])
       /\ fields[2] = Stem(tracepaths[r[2]][1])
       /\ fields[3] = <<prefetcher>>

\* a process runs in a directory named after a lead trace with a suffix
C16_Witness ==
  \E n \in 1..Len(procs) :
    /\ tracepaths[procs[n].group][1] = <<"a", ".", "b">>
    /\ NameFields(procs[n].dir)[2] = <<"a">>

\* C17: the expansion step does not change the batch that was parsed at
\* startup: the groups of tracepaths hold after it what they held before.
C17_ExpansionLeavesBatch ==
  [][pc = "expand" => tracepaths' = tracepaths]_vars

\* the number of paths in a batch
RECURSIVE PathCount(_)
PathCount(b) == IF b = <<>> THEN 0 ELSE Len(Head(b)) + PathCount(Tail(b))

\* C18: under --trace, every path of the batch that main builds is one of the
\* supplied trace paths, whole, and the batch holds as many paths as there
\* are --trace options.
C18_TracePathsWhole ==
  (mode = "trace" /\ pc # "parse")
    => /\ \A k \in 1..Len(Batch) : \A j \in 1..Len(Batch[k]) :
            \E n \in 1..Len(lines) : Batch[k][j] = PathOf(lines[n])
       /\ PathCount(Batch) = Len(lines)

====
